---- MODULE Spec2Model ----
(***************************************************************************)
(* A model of gideon's Ranking & Consensus Engine (src/gideon_core.py and  *)
(* its predecessors src/ensemble.py, src/pipeline.py).                     *)
(*                                                                         *)
(* Strings are sequences of one-character strings, so that the string      *)
(* functions of the code (lower, split, replace, strip, re.sub, in) are    *)
(* computed and not assumed.  Indices are 0-based as in the Python code;   *)
(* element i of a Python list l is l[i + 1] here.                          *)
(***************************************************************************)
EXTENDS Integers, Sequences, FiniteSets, TLC

VARIABLES
    \* ---- IntelligencePipeline.run_consensus_voting ----
    summarized_articles,  \* self.summarized_articles: the shortlist
    anthropic_client,     \* whether self.anthropic_client is configured
    vpc,                  \* position in run_consensus_voting
    votes,                \* the local dict votes: index -> count
    outcome,              \* per voter: what became of its call and response
    nitems,               \* items of the current response already resolved
    cited,                \* per voter: index -> citations it resolved to it
    lastCite,             \* the item handed to fuzzy_match_article last
    lastIdx,              \* what fuzzy_match_article returned for it
    final_selection,      \* the returned list (indices into the shortlist)
    ensemble_score,       \* art.metadata['ensemble_score'] per index
    \* ---- FilteringPipeline.execute ----
    agent_configs,        \* self.agent_configs: <<[name, weight], ...>>
    target_count,         \* self.target_count
    repo_articles,        \* repository.articles (their links)
    all_verdicts,         \* judge name -> (reported link -> score)
    apc,                  \* position in execute
    all_links,            \* the links of the union not yet aggregated
    final_scores,         \* the dict final_scores, in insertion order
    winner_repo,          \* winner_repo.articles (indices into articles)
    \* ---- ContextBatcher.create_batches, ContextSort.shuffle ----
    algo,                 \* which of the two batchers runs
    corpus_size,          \* len(repository.articles)
    batch_size,           \* batch_size
    deck,                 \* the deck (what is left of it, in ContextSort)
    bpc,                  \* position in the batcher
    chunk_pos,            \* the offset of the next chunk (create_batches)
    seen_combos,          \* the set seen_combos (create_batches)
    shuffled_order,       \* the placed sequence (ContextSort)
    batches,              \* the batches emitted or returned
    \* ---- retry_policy ----
    retries,              \* the configured number of attempts
    attempt,              \* the loop variable of `for attempt in range(retries)`
    rpc,                  \* position in wrapper
    op_log,               \* what each invocation of func came to, in order
    wrapper_result,       \* what wrapper returned or raised to its caller
    \* ---- normalize_url as execute uses it ----
    cand_link,            \* art.link of a repository article
    judge_link,           \* the link a judge reported
    norm_link,            \* norm_link
    npc,                  \* position: key stored, article looked up
    matched,              \* whether `normalize_url(art.link) == norm_link`
    \* ---- the cost ledgers ----
    session_cost,         \* GenerativeAIClient.session_cost of the current client
    client,               \* which GenerativeAIClient object that is
    cost_incurred,        \* HeuristicAgent.cost_incurred
    total_cost,           \* IntelligencePipeline.total_cost
    churn,                \* Gemini.churn (ensemble.py)
    cpc,                  \* whether evaluate_batch holds a client
    cost_calls,           \* cost-recording calls made so far
    last_call,            \* the last cost-recording call: path and model
    delivered,            \* what that call handed back to its caller
    \* ---- HeuristicAgent.evaluate_batch, Stage1Judge.verdict ----
    judge_algo,           \* which of the two runs
    batch_count,          \* len(batch_prompts), len(batch_deck.deck)
    batch_i,              \* the loop variable i: the batch being processed
    attempts,             \* attempts (verdict)
    results,              \* results, final_results: link -> entry
    submit_log,           \* the batches submitted to the service, in order
    batch_status,         \* per batch: pending, ok or failed
    scored_log,           \* evaluate_batch: per link and batch, the score last stored
    epc                   \* position in the judge

voteVars == <<summarized_articles, anthropic_client, vpc, votes, outcome,
              nitems, cited, lastCite, lastIdx, final_selection,
              ensemble_score>>

aggVars == <<agent_configs, target_count, repo_articles, all_verdicts, apc,
             all_links, final_scores, winner_repo>>

batchVars == <<algo, corpus_size, batch_size, deck, bpc, chunk_pos,
               seen_combos, shuffled_order, batches>>

retryVars == <<retries, attempt, rpc, op_log, wrapper_result>>

normVars == <<cand_link, judge_link, norm_link, npc, matched>>

costVars == <<session_cost, client, cost_incurred, total_cost, churn, cpc,
              cost_calls, last_call, delivered>>

evalVars == <<judge_algo, batch_count, batch_i, attempts, results,
              submit_log, batch_status, scored_log, epc>>

vars == <<voteVars, aggVars, batchVars, retryVars, normVars, costVars, evalVars>>

(***************************************************************************)
(* Strings                                                                 *)
(***************************************************************************)

\* str.lower() on one character.
LowerChar(c) ==
    CASE c = "A" -> "a" [] c = "B" -> "b" [] c = "C" -> "c" [] c = "D" -> "d"
      [] c = "E" -> "e" [] c = "F" -> "f" [] c = "G" -> "g" [] c = "H" -> "h"
      [] c = "I" -> "i" [] c = "J" -> "j" [] c = "K" -> "k" [] c = "L" -> "l"
      [] c = "M" -> "m" [] c = "N" -> "n" [] c = "O" -> "o" [] c = "P" -> "p"
      [] c = "Q" -> "q" [] c = "R" -> "r" [] c = "S" -> "s" [] c = "T" -> "t"
      [] c = "U" -> "u" [] c = "V" -> "v" [] c = "W" -> "w" [] c = "X" -> "x"
      [] c = "Y" -> "y" [] c = "Z" -> "z"
      [] OTHER -> c

\* str.lower()
LowerStr(s) == [i \in 1..Len(s) |-> LowerChar(s[i])]

\* The regex class \w: letters, digits and underscore.
IsWordChar(c) == c \notin {" ", "-", ".", "/", ":", "!", ","}

\* re.sub(r'\W+', ' ', s): every maximal run of non-word characters becomes
\* one space.
RECURSIVE ReSubNonWord(_)
ReSubNonWord(s) ==
    IF s = <<>> THEN <<>>
    ELSE IF IsWordChar(Head(s)) THEN <<Head(s)>> \o ReSubNonWord(Tail(s))
    ELSE IF Len(s) > 1 /\ ~IsWordChar(s[2]) THEN ReSubNonWord(Tail(s))
    ELSE <<" ">> \o ReSubNonWord(Tail(s))

\* str.strip(): leading and trailing blanks removed.
RECURSIVE StripWs(_)
StripWs(s) ==
    IF s = <<>> THEN <<>>
    ELSE IF Head(s) = " " THEN StripWs(Tail(s))
    ELSE IF s[Len(s)] = " " THEN StripWs(SubSeq(s, 1, Len(s) - 1))
    ELSE s

\* clean() of fuzzy_match_article.
Clean(s) == StripWs(LowerStr(ReSubNonWord(s)))

\* set(s.split()): the set of maximal runs of non-blank characters.
RECURSIVE SplitScan(_, _, _)
SplitScan(s, cur, acc) ==
    IF s = <<>> THEN (IF cur = <<>> THEN acc ELSE acc \cup {cur})
    ELSE IF Head(s) = " "
         THEN SplitScan(Tail(s), <<>>, IF cur = <<>> THEN acc ELSE acc \cup {cur})
         ELSE SplitScan(Tail(s), Append(cur, Head(s)), acc)

TokenSet(s) == SplitScan(s, <<>>, {})

\* Python's `a in b` on strings: a is a substring of b.
IsSubstr(a, b) ==
    \E i \in 0..(Len(b) - Len(a)) : SubSeq(b, i + 1, i + Len(a)) = a

\* u.split('://')[-1]: what follows the last "://", or u when there is none.
AfterLastSep(u) ==
    LET seps == {i \in 1..(Len(u) - 2) : SubSeq(u, i, i + 2) = <<":", "/", "/">>}
    IN  IF seps = {} THEN u
        ELSE LET last == CHOOSE i \in seps : \A j \in seps : j <= i
             IN  SubSeq(u, last + 3, Len(u))

\* u.replace('www.', ''): every occurrence is removed, left to right.
RECURSIVE RemoveWww(_)
RemoveWww(u) ==
    IF u = <<>> THEN <<>>
    ELSE IF Len(u) >= 4 /\ SubSeq(u, 1, 4) = <<"w", "w", "w", ".">>
         THEN RemoveWww(SubSeq(u, 5, Len(u)))
         ELSE <<Head(u)>> \o RemoveWww(Tail(u))

\* u.strip('/'): leading and trailing slashes removed.
RECURSIVE StripSlash(_)
StripSlash(u) ==
    IF u = <<>> THEN <<>>
    ELSE IF Head(u) = "/" THEN StripSlash(Tail(u))
    ELSE IF u[Len(u)] = "/" THEN StripSlash(SubSeq(u, 1, Len(u) - 1))
    ELSE u

\* Mutant of normalize_url: the letter case is kept.
NormalizeKeepCase(u) ==
    IF u = <<>> THEN <<>> ELSE StripSlash(RemoveWww(AfterLastSep(u)))

\* normalize_url (gideon_core.py:84-86); norm of Stage1Trial.convene is the
\* same expression.
normalize_url(u) ==
    IF u = <<>> THEN <<>> ELSE StripSlash(RemoveWww(AfterLastSep(LowerStr(u))))

(***************************************************************************)
(* fuzzy_match_article                                                     *)
(***************************************************************************)

\* Scores are the fractions <<num, den>>; the code's floats 0.8 + |t1&t2|/|t1|t2|
\* and 0.3 are compared exactly (within the model's titles no two distinct
\* fractions round to the same float).
LinkWeightTenths == 8
ThresholdTenths == 3

FracGt(a, b) == a[1] * b[2] > b[1] * a[2]

\* Lines 103-110: the composite score of one candidate.
CompositeScore(ret_title, ret_link, art) ==
    LET linkPart == IF ret_link # <<>>
                       /\ (IsSubstr(ret_link, art.link) \/ IsSubstr(art.link, ret_link))
                    THEN LinkWeightTenths ELSE 0
        t1 == TokenSet(Clean(ret_title))
        t2 == TokenSet(Clean(art.title))
    IN  IF t1 # {} /\ t2 # {}
        THEN <<linkPart * Cardinality(t1 \cup t2) + 10 * Cardinality(t1 \cap t2),
               10 * Cardinality(t1 \cup t2)>>
        ELSE <<linkPart, 10>>

\* Mutant of Accept: the best candidate is returned however low its score.
AcceptAnyBest(best_score, best_idx) == best_idx

\* Lines 116-117: the acceptance threshold.
Accept(best_score, best_idx) ==
    IF FracGt(best_score, <<ThresholdTenths, 10>>) THEN best_idx ELSE -1

\* Mutant of FuzzyScan: no early return on an exact link.
RECURSIVE FuzzyScanNoEarlyReturn(_, _, _, _, _, _)
FuzzyScanNoEarlyReturn(ret_title, ret_link, articles, i, best_idx, best_score) ==
    IF i >= Len(articles) THEN Accept(best_score, best_idx)
    ELSE LET score == CompositeScore(ret_title, ret_link, articles[i + 1])
         IN  IF FracGt(score, best_score)
             THEN FuzzyScanNoEarlyReturn(ret_title, ret_link, articles, i + 1, i, score)
             ELSE FuzzyScanNoEarlyReturn(ret_title, ret_link, articles, i + 1,
                                         best_idx, best_score)

\* Lines 97-114: the scan over the shortlist, with the early return on an
\* exact link.
RECURSIVE FuzzyScan(_, _, _, _, _, _)
FuzzyScan(ret_title, ret_link, articles, i, best_idx, best_score) ==
    IF i >= Len(articles) THEN Accept(best_score, best_idx)
    ELSE LET art == articles[i + 1]
             score == CompositeScore(ret_title, ret_link, art)
         IN  IF ret_link # <<>> /\ ret_link = art.link THEN i
             ELSE IF FracGt(score, best_score)
                  THEN FuzzyScan(ret_title, ret_link, articles, i + 1, i, score)
                  ELSE FuzzyScan(ret_title, ret_link, articles, i + 1,
                                 best_idx, best_score)

fuzzy_match_article(ret_title, ret_link, articles) ==
    FuzzyScan(ret_title, ret_link, articles, 0, -1, <<0, 10>>)

(***************************************************************************)
(* Cost of a call: ModelRegistry.PRICING and the cost formula              *)
(***************************************************************************)

\* ModelRegistry.PRICING, gideon_core.py:45-50.
PRICING ==
    [m \in {"gemini-3-pro-preview", "claude-opus-4-6"} |->
        IF m = "gemini-3-pro-preview" THEN [input |-> 200, output |-> 1200]
        ELSE [input |-> 500, output |-> 2500]]

\* PRICING.get(model, {"input": 0, "output": 0}), lines 250 and 400.
RatesOrZero(model) ==
    IF model \in DOMAIN PRICING THEN PRICING[model]
    ELSE [input |-> 0, output |-> 0]

\* (in / 1e6 * rates["input"]) + (out / 1e6 * rates["output"])
Cost(in_q, out_q, rates) == in_q * rates.input + out_q * rates.output

\* Mutant of Accumulate: `=` where the code has `+=`.
Overwrite(ledger, cost) == cost

\* ledger += cost
Accumulate(ledger, cost) == ledger + cost

\* The largest number of cost-recording calls in a run.
MaxCostCalls == 3

(***************************************************************************)
(* IntelligencePipeline.run_consensus_voting                               *)
(***************************************************************************)

\* Links and titles of the shortlists and of the voters' citations.
L_xa  == <<"x", "/", "a">>
L_xb  == <<"x", "/", "b">>
L_xc  == <<"x", "/", "c">>
L_x   == <<"x">>
L_q   == <<"q">>
L_xah == <<"x", "/", "a", "/", "h">>

T_Ab   == <<"A", " ", "b">>
T_cd   == <<"c", "-", "d">>
T_e    == <<"e">>
T_abcd == <<"a", " ", "b", " ", "c", " ", "d">>
T_a    == <<"a">>
T_Ba   == <<"B", ",", " ", "a", "!">>
T_az   == <<"a", " ", "z">>
T_azyw == <<"a", " ", "z", " ", "y", " ", "w">>
T_z    == <<"z">>

Art(l, t) == [link |-> l, title |-> t]

\* A shortlist of distinct links and titles, and one with a link contained in
\* the others' and a link held by two articles (as in tests/voting_test.py,
\* whose last two articles share their link).
BaseA == <<Art(L_xa, T_Ab), Art(L_xb, T_cd), Art(L_xc, T_e)>>
BaseB == <<Art(L_x, T_abcd), Art(L_xa, T_a), Art(L_xa, T_e)>>

Shortlists ==
    {SubSeq(b, 1, n) : b \in {BaseA, BaseB}, n \in 0..3}

\* What a voter may cite: item.get("title") and item.get("link"); <<>> is a
\* missing or empty field (None or "").
CiteTitles == {T_Ba, T_az, T_azyw, T_z, T_e, <<>>}
CiteLinks  == {<<>>, L_xa, L_xb, L_q, L_xah}
Citations  == [kind : {"cite"}, title : CiteTitles, link : CiteLinks]

\* An element of "winners" that is no object (item.get raises), or whose link
\* is no string (`ret_link in art.link` raises).
BadItem == [kind |-> "bad"]
Items == Citations \cup {BadItem}

Voters == {"gemini", "claude"}

\* The longest "winners" list a response holds.
MaxWinners == 2

NoCite == [kind |-> "none"]

Indices(articles) == 0..(Len(articles) - 1)

\* The variables of the batchers while another operation is the one modelled.
BatchIdle ==
    /\ algo = "none"
    /\ corpus_size = 0
    /\ batch_size = 0
    /\ deck = <<>>
    /\ bpc = "idle"
    /\ chunk_pos = 0
    /\ seen_combos = {}
    /\ shuffled_order = <<>>
    /\ batches = <<>>

\* The variables of execute while another operation is the one modelled.
AggIdle ==
    /\ agent_configs = <<>>
    /\ target_count = 0
    /\ repo_articles = <<>>
    /\ all_verdicts = <<>>
    /\ apc = "idle"
    /\ all_links = {}
    /\ final_scores = <<>>
    /\ winner_repo = <<>>

\* What wrapper has handed to its caller before it ends.
NoResult == [kind |-> "none", val |-> "none"]

\* The variables of retry_policy while another operation is the one modelled.
RetryIdle ==
    /\ retries = 0
    /\ attempt = 0
    /\ rpc = "idle"
    /\ op_log = <<>>
    /\ wrapper_result = NoResult

\* The variables of the key comparison while another operation is modelled.
NormIdle ==
    /\ cand_link = <<>>
    /\ judge_link = <<>>
    /\ norm_link = <<>>
    /\ npc = "idle"
    /\ matched = FALSE

NoCall == [path |-> "none", model |-> "none"]

\* The cost ledgers while another operation is the one modelled.
CostIdle ==
    /\ session_cost = 0
    /\ client = 0
    /\ cost_incurred = 0
    /\ total_cost = 0
    /\ churn = 0
    /\ cpc = "idle"
    /\ cost_calls = 0
    /\ last_call = NoCall
    /\ delivered = "nothing"

\* The variables of the judges while another operation is the one modelled.
EvalIdle ==
    /\ judge_algo = "none"
    /\ batch_count = 0
    /\ batch_i = 0
    /\ attempts = 0
    /\ results = <<>>
    /\ submit_log = <<>>
    /\ batch_status = <<>>
    /\ scored_log = <<>>
    /\ epc = "idle"

InitVote ==
    /\ summarized_articles \in Shortlists
    /\ anthropic_client \in BOOLEAN
    /\ vpc = "start"
    /\ votes = <<>>
    /\ outcome = [v \in Voters |-> "none"]
    /\ nitems = 0
    /\ cited = [v \in Voters |-> [i \in Indices(summarized_articles) |-> 0]]
    /\ lastCite = NoCite
    /\ lastIdx = -1
    /\ final_selection = <<>>
    /\ ensemble_score = [i \in Indices(summarized_articles) |-> 0]
    /\ AggIdle
    /\ BatchIdle
    /\ RetryIdle
    /\ NormIdle
    /\ CostIdle
    /\ EvalIdle

\* Line 451: an empty shortlist returns [] at once; line 462 otherwise.
VoteBegin ==
    /\ vpc = "start"
    /\ IF summarized_articles = <<>>
       THEN /\ vpc' = "done"
            /\ votes' = votes
       ELSE /\ vpc' = "gemini_call"
            /\ votes' = [i \in Indices(summarized_articles) |-> 0]
    /\ UNCHANGED <<summarized_articles, anthropic_client, outcome, nitems,
                   cited, lastCite, lastIdx, final_selection, ensemble_score, aggVars, batchVars, retryVars, normVars, costVars, evalVars>>

\* What a voter's call and the parse of its response may come to.  "raised":
\* the call raised after its retries; "unparsable": json.loads or .get raised;
\* "nomatch": Claude's text holds no {...} (line 503); "parsed": a winners
\* list was obtained.
CallOutcomes(v) ==
    IF v = "gemini" THEN {"raised", "unparsable", "parsed"}
    ELSE {"raised", "unparsable", "nomatch", "parsed"}

LoopPc(v) == IF v = "gemini" THEN "gemini_loop" ELSE "claude_loop"
CallPc(v) == IF v = "gemini" THEN "gemini_call" ELSE "claude_call"
\* Where control goes when voter v's block is left (normally or by except).
AfterPc(v) == IF v = "gemini" THEN "claude_call" ELSE "tally"

\* Mutant of ExceptPc: the exception leaves run_consensus_voting.
ExceptPcPropagates(v) == "aborted"

\* Lines 482-483 and 508-509: `except Exception` ends the voter's block and
\* the function goes on with what follows it.
ExceptPc(v) == AfterPc(v)

\* _track_cost(model, len(voting_prompt), len(text)) of lines 477 and 499,
\* for a prompt of 8 and a response of 4 characters.
VoteCost(v) ==
    Cost(8, 4, RatesOrZero(IF v = "gemini" THEN "gemini-3-pro-preview"
                           ELSE "claude-opus-4-6"))

\* Lines 475-477 and 498-504: the call and the parse.  No {...} in Claude's
\* text is no exception: the block ends normally.  Gemini's response is
\* parsed (line 476) before _track_cost (line 477), Claude's (lines 502-504)
\* after it (line 499).
VoterCall(v) ==
    /\ vpc = CallPc(v)
    /\ v = "claude" => anthropic_client
    /\ \E out \in CallOutcomes(v) :
          /\ outcome' = [outcome EXCEPT ![v] = out]
          /\ vpc' = CASE out = "parsed" -> LoopPc(v)
                       [] out = "nomatch" -> AfterPc(v)
                       [] OTHER -> ExceptPc(v)
          /\ IF out = "raised" \/ (v = "gemini" /\ out = "unparsable")
             THEN UNCHANGED <<total_cost, cost_calls>>
             ELSE /\ total_cost' = Accumulate(total_cost, VoteCost(v))
                  /\ cost_calls' = cost_calls + 1
    /\ nitems' = 0
    /\ UNCHANGED <<summarized_articles, anthropic_client, votes, cited,
                   lastCite, lastIdx, final_selection, ensemble_score,
                   session_cost, client, cost_incurred, churn, cpc, last_call,
                   delivered, aggVars, batchVars, retryVars, normVars, evalVars>>

\* Line 486: without an Anthropic client the second voter is skipped.
ClaudeSkip ==
    /\ vpc = "claude_call"
    /\ ~anthropic_client
    /\ vpc' = "tally"
    /\ UNCHANGED <<summarized_articles, anthropic_client, votes, outcome,
                   nitems, cited, lastCite, lastIdx, final_selection,
                   ensemble_score, aggVars, batchVars, retryVars, normVars, costVars, evalVars>>

\* Lines 481 and 507: `if idx != -1: votes[idx] += 1`.
CountVote(vs, idx) ==
    IF idx # -1 THEN [vs EXCEPT ![idx] = @ + 1] ELSE vs

\* Lines 479-483 and 505-509: one iteration of `for item in winners`.  An item
\* that makes item.get or fuzzy_match_article raise leaves the loop through
\* the voter's except clause.
VoterItem(v) ==
    /\ vpc = LoopPc(v)
    /\ nitems < MaxWinners
    /\ \E item \in Items :
          /\ lastCite' = item
          /\ IF item.kind = "bad"
             THEN /\ outcome' = [outcome EXCEPT ![v] = "failed"]
                  /\ vpc' = ExceptPc(v)
                  /\ nitems' = 0
                  /\ UNCHANGED <<votes, cited, lastIdx>>
             ELSE /\ lastIdx' = fuzzy_match_article(item.title, item.link,
                                                    summarized_articles)
                  /\ votes' = CountVote(votes, lastIdx')
                  /\ cited' = [cited EXCEPT ![v] = CountVote(@, lastIdx')]
                  /\ nitems' = nitems + 1
                  /\ UNCHANGED <<outcome, vpc>>
    /\ UNCHANGED <<summarized_articles, anthropic_client, final_selection,
                   ensemble_score, aggVars, batchVars, retryVars, normVars, costVars, evalVars>>

\* The winners list is exhausted.
VoterEnd(v) ==
    /\ vpc = LoopPc(v)
    /\ outcome' = [outcome EXCEPT ![v] = "finished"]
    /\ vpc' = AfterPc(v)
    /\ nitems' = 0
    /\ UNCHANGED <<summarized_articles, anthropic_client, votes, cited,
                   lastCite, lastIdx, final_selection, ensemble_score, aggVars, batchVars, retryVars, normVars, costVars, evalVars>>

\* Mutant of InsertDesc: equal keys end in reverse order (an ascending sort
\* reversed).
RECURSIVE InsertDescUnstable(_, _, _)
InsertDescUnstable(ranked, i, key) ==
    IF ranked = <<>> THEN <<i>>
    ELSE IF key[Head(ranked)] > key[i]
         THEN <<Head(ranked)>> \o InsertDescUnstable(Tail(ranked), i, key)
         ELSE <<i>> \o ranked

\* sorted(votes, key=votes.get, reverse=True), line 512: Python's sort is
\* stable, also with reverse=True, and a dict iterates in insertion order
\* (0, 1, ..., n-1): insertion of index i after every index that does not rank
\* below it.
RECURSIVE InsertDesc(_, _, _)
InsertDesc(ranked, i, key) ==
    IF ranked = <<>> THEN <<i>>
    ELSE IF key[Head(ranked)] >= key[i]
         THEN <<Head(ranked)>> \o InsertDesc(Tail(ranked), i, key)
         ELSE <<i>> \o ranked

RECURSIVE SortedDescFrom(_, _, _)
SortedDescFrom(ranked, i, key) ==
    IF i \notin DOMAIN key THEN ranked
    ELSE SortedDescFrom(InsertDesc(ranked, i, key), i + 1, key)

SortedDesc(key) == SortedDescFrom(<<>>, 0, key)

\* Lines 516-521: the indices with a positive score, in ranked order.
RECURSIVE Positive(_, _)
Positive(ranked, key) ==
    IF ranked = <<>> THEN <<>>
    ELSE IF key[Head(ranked)] > 0
         THEN <<Head(ranked)>> \o Positive(Tail(ranked), key)
         ELSE Positive(Tail(ranked), key)

\* Lines 511-529.
Tally ==
    /\ vpc = "tally"
    /\ final_selection' = Positive(SortedDesc(votes), votes)
    /\ ensemble_score' = [i \in DOMAIN ensemble_score |->
                             IF votes[i] > 0 THEN votes[i] ELSE ensemble_score[i]]
    /\ vpc' = "done"
    /\ UNCHANGED <<summarized_articles, anthropic_client, votes, outcome,
                   nitems, cited, lastCite, lastIdx, aggVars, batchVars, retryVars, normVars, costVars, evalVars>>

NextVote ==
    \/ VoteBegin
    \/ \E v \in Voters : VoterCall(v)
    \/ ClaudeSkip
    \/ \E v \in Voters : VoterItem(v)
    \/ \E v \in Voters : VoterEnd(v)
    \/ Tally

SpecVote == InitVote /\ [][NextVote]_vars

\* run_consensus_voting is called again on the same pipeline object (the
\* stage is re-run; alert_telegram.py:199-202 and newsletter_test.py:77 hand
\* it articles that carry the annotations of an earlier run): its locals are
\* new, the articles' metadata and the ledger are what the last call left.
\* Followed while fewer than MaxCostCalls calls were charged.
VoteAgain ==
    /\ vpc = "done"
    /\ summarized_articles # <<>>
    /\ cost_calls < MaxCostCalls
    /\ vpc' = "start"
    /\ votes' = <<>>
    /\ outcome' = [v \in Voters |-> "none"]
    /\ nitems' = 0
    /\ cited' = [v \in Voters |-> [i \in Indices(summarized_articles) |-> 0]]
    /\ lastCite' = NoCite
    /\ lastIdx' = -1
    /\ final_selection' = <<>>
    /\ UNCHANGED <<summarized_articles, anthropic_client, ensemble_score,
                   aggVars, batchVars, retryVars, normVars, costVars, evalVars>>

NextRevote ==
    \/ NextVote
    \/ VoteAgain

\* A shortlist of two articles.
InitRevote == InitVote /\ summarized_articles = SubSeq(BaseA, 1, 2)

SpecRevote == InitRevote /\ [][NextRevote]_vars

(***************************************************************************)
(* Claims on run_consensus_voting and fuzzy_match_article (SpecVote)       *)
(***************************************************************************)

\* The voters whose response has been received.
Responded == {v \in Voters : outcome[v] \notin {"none", "raised"}}

\* The voters whose processing failed at some point.
FailedVoters == {v \in Voters : outcome[v] \in {"raised", "unparsable", "failed"}}

Other(v) == IF v = "gemini" THEN "claude" ELSE "gemini"

\* C3: one voter's response adds at most 1 to any candidate's vote count, so
\* no candidate's vote count exceeds the number of voters that have responded.
C3_AtMostOneVotePerVoter ==
    \A i \in DOMAIN votes : votes[i] <= Cardinality(Responded)

\* C4: if one voter's call raises or its response is unparsable, the votes are
\* exactly those the other voter's citations resolve to, and the function
\* still reaches its tally and returns the ranked selection of those votes.
C4_FailedVoterIsolated ==
    /\ vpc # "aborted"
    /\ \A v \in Voters :
          (outcome[v] \in {"raised", "unparsable"} /\ vpc \in {"tally", "done"})
             => /\ \A i \in DOMAIN votes : votes[i] = cited[Other(v)][i]
                /\ vpc = "done" =>
                      {final_selection[p] : p \in DOMAIN final_selection}
                         = {i \in DOMAIN votes : cited[Other(v)][i] > 0}

C4_Witness ==
    /\ vpc = "done"
    /\ outcome["gemini"] = "raised"
    /\ outcome["claude"] = "finished"
    /\ final_selection # <<>>

\* C5: a voter whose processing fails at any point contributes zero votes:
\* the final tally holds only the votes of the voters that did not fail.
C5_FailedVoterContributesNothing ==
    vpc = "done" =>
       \A i \in DOMAIN votes :
          votes[i] = (IF "gemini" \in FailedVoters THEN 0 ELSE cited["gemini"][i])
                   + (IF "claude" \in FailedVoters THEN 0 ELSE cited["claude"][i])

\* C6: the result is exactly the shortlist candidates with at least one vote,
\* by vote count descending, equal counts in shortlist order.
C6_RankedSelection ==
    vpc = "done" =>
       /\ \A p, q \in DOMAIN final_selection :
             p < q =>
                \/ votes[final_selection[p]] > votes[final_selection[q]]
                \/ /\ votes[final_selection[p]] = votes[final_selection[q]]
                   /\ final_selection[p] < final_selection[q]
       /\ {final_selection[p] : p \in DOMAIN final_selection}
             = {i \in DOMAIN votes : votes[i] > 0}

C6_Witness ==
    /\ vpc = "done"
    /\ Len(final_selection) = 3
    /\ final_selection[1] > final_selection[2]
    /\ votes[final_selection[2]] = votes[final_selection[3]]

\* The highest composite score over the shortlist exceeds the threshold 0.3.
SomeCompositeAboveThreshold(c) ==
    \E i \in Indices(summarized_articles) :
       FracGt(CompositeScore(c.title, c.link, summarized_articles[i + 1]),
              <<ThresholdTenths, 10>>)

\* The citation shares no token with any candidate's title and its link
\* neither equals, contains nor is contained in any candidate's link.
Unrelated(c) ==
    \A i \in Indices(summarized_articles) :
       LET art == summarized_articles[i + 1] IN
       /\ TokenSet(Clean(c.title)) \cap TokenSet(Clean(art.title)) = {}
       /\ c.link # art.link
       /\ ~IsSubstr(c.link, art.link)
       /\ ~IsSubstr(art.link, c.link)

C7_State ==
    lastCite.kind = "cite" =>
       /\ lastIdx # -1 <=> SomeCompositeAboveThreshold(lastCite)
       /\ lastIdx \in Indices(summarized_articles) \cup {-1}
       /\ Unrelated(lastCite) => lastIdx = -1

\* C7: fuzzy_match_article returns an index only if the highest composite
\* score strictly exceeds 0.3 and -1 otherwise; an unrelated citation gives
\* -1; and a citation resolved to -1 changes no vote count.
C7_ThresholdGuard ==
    /\ []C7_State
    /\ [][(nitems' = nitems + 1 /\ lastIdx' = -1) => votes' = votes]_vars

\* A citation sharing one token out of five with a title (1/5 <= 0.3) was
\* resolved to -1 on a shortlist it is not unrelated to.
C7_Witness ==
    /\ lastCite.kind = "cite"
    /\ lastCite.title = T_azyw
    /\ lastCite.link = <<>>
    /\ summarized_articles = BaseB
    /\ lastIdx = -1
    /\ nitems > 0

\* The indices whose link equals the citation's.
ExactLinks(c) ==
    {i \in Indices(summarized_articles) : summarized_articles[i + 1].link = c.link}

\* C8: a non-empty citation link equal to a candidate's link returns the
\* first candidate with that link, whatever the title and the other
\* candidates' scores.
C8_ExactLinkWins ==
    (lastCite.kind = "cite" /\ lastCite.link # <<>> /\ ExactLinks(lastCite) # {})
       => /\ lastIdx \in ExactLinks(lastCite)
          /\ \A i \in ExactLinks(lastCite) : lastIdx <= i

\* An exact link on the second of three candidates while the third one (same
\* link, matching title) has the highest composite score.
C8_Witness ==
    /\ summarized_articles = BaseB
    /\ lastCite.kind = "cite"
    /\ lastCite.link = L_xa
    /\ lastCite.title = T_e
    /\ lastIdx = 1

\* C29: after any sequence of run_consensus_voting calls, the ensemble_score
\* of every shortlisted article is the number of votes it got in the most
\* recent call (0 standing for an absent annotation).
C29_ScoreIsLatestTally ==
    (vpc = "done" /\ summarized_articles # <<>>) =>
       \A i \in Indices(summarized_articles) : ensemble_score[i] = votes[i]

\* What voter v's call owes the ledger: its cost when it returned a response.
Due(v) == IF outcome[v] \in {"unparsable", "nomatch", "parsed"} THEN VoteCost(v) ELSE 0

\* C25: every call that returned a response has its cost in the ledger of
\* its owner, also when the response did not parse.
C25_EveryResponseCharged ==
    summarized_articles # <<>> => total_cost = Due("gemini") + Due("claude")

(***************************************************************************)
(* FilteringPipeline.execute: aggregation and selection                    *)
(***************************************************************************)

\* Links as the repository stores them and as a judge may report them back.
U_a == <<"h", ":", "/", "/", "a">>
U_A == <<"H", ":", "/", "/", "W", "W", "W", ".", "a", "/">>
U_b == <<"h", ":", "/", "/", "b">>

\* A link a judge reports that is no article's.
U_q == <<"h", ":", "/", "/", "q">>

ReportedLinks == {U_a, U_A, U_b, U_q}
Scores == {40, 80}

\* A verdict of HeuristicAgent.evaluate_batch: reported link -> score.
Verdicts == UNION {[ls -> Scores] : ls \in SUBSET ReportedLinks}

\* Judge panels; weights in tenths (0.5/0.5 is run_gideon.py:116-117, 1.0 the
\* single-judge panels, 0.6/0.4 unequal weights).  Weighted scores are in
\* tenths too: the products are exact where the code's floats are.
Judge(n, w) == [name |-> n, weight |-> w]
Panels ==
    { <<Judge("industry", 5), Judge("engineer", 5)>>,
      <<Judge("industry", 6), Judge("engineer", 4)>>,
      <<Judge("engineer", 10)>> }

\* The largest target_count.
MaxTarget == 2

VoteIdle ==
    /\ summarized_articles = <<>>
    /\ anthropic_client = FALSE
    /\ vpc = "idle"
    /\ votes = <<>>
    /\ outcome = [v \in Voters |-> "none"]
    /\ nitems = 0
    /\ cited = [v \in Voters |-> <<>>]
    /\ lastCite = NoCite
    /\ lastIdx = -1
    /\ final_selection = <<>>
    /\ ensemble_score = <<>>

InitAgg ==
    /\ agent_configs \in Panels
    /\ target_count \in 1..MaxTarget
    /\ repo_articles = <<U_a, U_b>>
    /\ all_verdicts \in [{agent_configs[i].name : i \in DOMAIN agent_configs} -> Verdicts]
    /\ apc = "start"
    /\ all_links = {}
    /\ final_scores = <<>>
    /\ winner_repo = <<>>
    /\ VoteIdle
    /\ BatchIdle
    /\ RetryIdle
    /\ NormIdle
    /\ CostIdle
    /\ EvalIdle

\* Line 345: the union of the verdicts' keys.
AggBegin ==
    /\ apc = "start"
    /\ all_links' = UNION {DOMAIN all_verdicts[n] : n \in DOMAIN all_verdicts}
    /\ apc' = "aggregate"
    /\ UNCHANGED <<agent_configs, target_count, repo_articles, all_verdicts,
                   final_scores, winner_repo, voteVars, batchVars, retryVars, normVars, costVars, evalVars>>

\* all_verdicts[agent_name].get(link, {}).get('score', 0), line 355.
RawScore(verdict, link) ==
    IF link \in DOMAIN verdict THEN verdict[link] ELSE 0

\* Lines 350-357: the sum over every configured judge.
RECURSIVE WeightedSum(_, _, _)
WeightedSum(configs, verdicts, link) ==
    IF configs = <<>> THEN 0
    ELSE RawScore(verdicts[Head(configs).name], link) * Head(configs).weight
         + WeightedSum(Tail(configs), verdicts, link)

\* d[k] = v on a dict kept in insertion order: an existing key keeps its
\* place and takes the new value.
DictSet(d, k, v) ==
    IF \E i \in DOMAIN d : d[i].key = k
    THEN [i \in DOMAIN d |-> IF d[i].key = k THEN [key |-> k, score |-> v] ELSE d[i]]
    ELSE Append(d, [key |-> k, score |-> v])

\* The key under which a link's weighted sum is stored, lines 359-360.
ScoreKey(link) == normalize_url(link)

\* Lines 349-361: one iteration of `for link in all_links` (a set: any order).
AggregateLink ==
    /\ apc = "aggregate"
    /\ \E link \in all_links :
          /\ final_scores' = DictSet(final_scores, ScoreKey(link),
                                     WeightedSum(agent_configs, all_verdicts, link))
          /\ all_links' = all_links \ {link}
    /\ UNCHANGED <<agent_configs, target_count, repo_articles, all_verdicts,
                   apc, winner_repo, voteVars, batchVars, retryVars, normVars, costVars, evalVars>>

\* Mutant of SortedLinks: the entries are left in insertion order.
SortedLinksUnsorted(fs) == [p \in 1..Len(fs) |-> p - 1]

\* sorted(final_scores.items(), key=lambda x: x[1], reverse=True), line 364:
\* the positions of final_scores, best first.
SortedLinks(fs) == SortedDesc([i \in 0..(Len(fs) - 1) |-> fs[i + 1].score])

\* Lines 372-377: the first article whose normalized link is the key, if any.
RECURSIVE Winners(_, _, _)
Winners(keys, arts, acc) ==
    IF keys = <<>> THEN acc
    ELSE LET hits == {i \in Indices(arts) : normalize_url(arts[i + 1]) = Head(keys)}
         IN  Winners(Tail(keys), arts,
                     IF hits = {} THEN acc
                     ELSE Append(acc, CHOOSE i \in hits : \A j \in hits : i <= j))

\* Lines 364-379.
Select ==
    /\ apc = "aggregate"
    /\ all_links = {}
    /\ LET sorted_links == SortedLinks(final_scores)
           n == IF target_count < Len(sorted_links) THEN target_count
                ELSE Len(sorted_links)
           top == [p \in 1..n |-> final_scores[sorted_links[p] + 1].key]
       IN  winner_repo' = Winners(top, repo_articles, <<>>)
    /\ apc' = "done"
    /\ UNCHANGED <<agent_configs, target_count, repo_articles, all_verdicts,
                   all_links, final_scores, voteVars, batchVars, retryVars, normVars, costVars, evalVars>>

NextAgg ==
    \/ AggBegin
    \/ AggregateLink
    \/ Select

SpecAgg == InitAgg /\ [][NextAgg]_vars

(***************************************************************************)
(* Claims on FilteringPipeline.execute (SpecAgg)                           *)
(***************************************************************************)

JudgeNames == {agent_configs[i].name : i \in DOMAIN agent_configs}

\* The links under which judge n reported the candidate of identity k.
Spellings(n, k) == {l \in DOMAIN all_verdicts[n] : normalize_url(l) = k}

\* Every judge reported the candidate of identity k under at most one link.
OneSpellingEach(k) == \A n \in JudgeNames : Cardinality(Spellings(n, k)) <= 1

\* Judge n's score for identity k, 0 when its verdict lacks it.
ScoreFor(n, k) ==
    IF Spellings(n, k) = {} THEN 0
    ELSE all_verdicts[n][CHOOSE l \in Spellings(n, k) : TRUE]

RECURSIVE ExpectedScore(_, _)
ExpectedScore(configs, k) ==
    IF configs = <<>> THEN 0
    ELSE ScoreFor(Head(configs).name, k) * Head(configs).weight
         + ExpectedScore(Tail(configs), k)

Identities ==
    {normalize_url(l) : l \in UNION {DOMAIN all_verdicts[n] : n \in JudgeNames}}

Entries(k) == {i \in DOMAIN final_scores : final_scores[i].key = k}

\* C1: for every identity of the union of the verdicts, the weighted score is
\* the sum over all configured judges of the judge's score for the identity
\* (0 when its verdict lacks it) times the judge's weight.
C1_WeightedSumOverAllJudges ==
    apc = "done" =>
       \A k \in Identities :
          OneSpellingEach(k) =>
             /\ Entries(k) # {}
             /\ \A i \in Entries(k) :
                   final_scores[i].score = ExpectedScore(agent_configs, k)

\* C2: two judges reporting one candidate under links that differ only in
\* case, scheme, www. or a trailing slash give a single entry that holds both
\* judges' weighted contributions.
C2_JoinOnNormalizedUrl ==
    apc = "done" =>
       \A p, q \in DOMAIN agent_configs :
          \A l1 \in DOMAIN all_verdicts[agent_configs[p].name] :
             \A l2 \in DOMAIN all_verdicts[agent_configs[q].name] :
                (p # q /\ l1 # l2 /\ normalize_url(l1) = normalize_url(l2)
                   /\ OneSpellingEach(normalize_url(l1)))
                   => /\ Cardinality(Entries(normalize_url(l1))) = 1
                      /\ \A i \in Entries(normalize_url(l1)) :
                            final_scores[i].score
                               >= all_verdicts[agent_configs[p].name][l1] * agent_configs[p].weight
                                  + all_verdicts[agent_configs[q].name][l2] * agent_configs[q].weight

(***************************************************************************)
(* ContextBatcher.create_batches (gideon_core.py) and ContextSort.shuffle  *)
(* (ensemble.py; create_constrained_batches of pipeline.py is the same     *)
(* loop over article dicts with the window fixed at 8)                     *)
(***************************************************************************)

\* `indices * 3`, `list(range(corpus_size)) * 3`: copies of each index.
Redundancy == 3

\* The largest corpus and the largest batch size.
MaxCorpus == 2
MaxBatch == 3

\* random.shuffle(deck): every arrangement of the deck, from the number of
\* copies of each index still to be dealt.
RECURSIVE Shuffles(_)
Shuffles(left) ==
    IF \A v \in DOMAIN left : left[v] = 0 THEN {<<>>}
    ELSE UNION {{<<v>> \o rest : rest \in Shuffles([left EXCEPT ![v] = @ - 1])}
                   : v \in {w \in DOMAIN left : left[w] > 0}}

ShuffledDecks(n) == Shuffles([v \in 0..(n - 1) |-> Redundancy])

\* The shuffled decks of every corpus size, computed once.
DeckTable == [n \in 0..MaxCorpus |-> ShuffledDecks(n)]

InitBatch ==
    /\ algo \in {"create_batches", "ContextSort"}
    /\ corpus_size \in 0..MaxCorpus
    /\ batch_size \in 1..MaxBatch
    /\ deck = <<>>
    /\ bpc = "start"
    /\ chunk_pos = 0
    /\ seen_combos = {}
    /\ shuffled_order = <<>>
    /\ batches = <<>>
    /\ VoteIdle
    /\ AggIdle
    /\ RetryIdle
    /\ NormIdle
    /\ CostIdle
    /\ EvalIdle

\* gideon_core.py:260-265, ensemble.py:134-136: build and shuffle the deck.
Shuffle ==
    /\ bpc = "start"
    /\ deck' \in DeckTable[corpus_size]
    /\ bpc' = IF algo = "create_batches" THEN "chunks" ELSE "place"
    /\ UNCHANGED <<algo, corpus_size, batch_size, chunk_pos, seen_combos,
                   shuffled_order, batches, voteVars, aggVars, retryVars, normVars, costVars, evalVars>>

\* Mutant of Chunk: the slice ends one element early.
ChunkShort(l, pos, size) ==
    SubSeq(l, pos + 1, IF pos + size - 1 < Len(l) THEN pos + size - 1 ELSE Len(l))

\* l[pos:pos + size]
Chunk(l, pos, size) ==
    SubSeq(l, pos + 1, IF pos + size < Len(l) THEN pos + size ELSE Len(l))

\* list(set(chunk)), line 272: the distinct indices of the chunk.  (Their
\* order is the set's; ascending here.)
RECURSIVE SetToSeq(_)
SetToSeq(S) ==
    IF S = {} THEN <<>>
    ELSE LET m == CHOOSE x \in S : \A y \in S : x <= y
         IN  <<m>> \o SetToSeq(S \ {m})

\* Mutant of Dedup: the chunk is kept as it is.
DedupSkipped(chunk) == chunk

Dedup(chunk) == SetToSeq({chunk[i] : i \in DOMAIN chunk})

\* tuple(sorted(clean_chunk)), lines 273-274: the combination as a set.
Combo(clean_chunk) == {clean_chunk[i] : i \in DOMAIN clean_chunk}

\* Lines 270-277: one iteration of `for chunk in chunked`.
NextChunk ==
    /\ bpc = "chunks"
    /\ chunk_pos < Len(deck)
    /\ LET clean_chunk == Dedup(Chunk(deck, chunk_pos, batch_size))
       IN  IF Combo(clean_chunk) \in seen_combos
           THEN UNCHANGED <<seen_combos, batches>>
           ELSE /\ seen_combos' = seen_combos \cup {Combo(clean_chunk)}
                /\ batches' = Append(batches, clean_chunk)
    /\ chunk_pos' = chunk_pos + batch_size
    /\ UNCHANGED <<algo, corpus_size, batch_size, deck, bpc, shuffled_order,
                   voteVars, aggVars, retryVars, normVars, costVars, evalVars>>

\* Line 279: return prompts.
BatchesReturn ==
    /\ bpc = "chunks"
    /\ chunk_pos >= Len(deck)
    /\ bpc' = "done"
    /\ UNCHANGED <<algo, corpus_size, batch_size, deck, chunk_pos, seen_combos,
                   shuffled_order, batches, voteVars, aggVars, retryVars, normVars, costVars, evalVars>>

\* A lookback that is one entry short.
RecentShort(order, window) ==
    SubSeq(order, IF Len(order) > window - 1 THEN Len(order) - window + 2 ELSE 1,
           Len(order))

\* shuffled_order[-batch_size:]
Recent(order, window) ==
    SubSeq(order, IF Len(order) > window THEN Len(order) - window + 1 ELSE 1,
           Len(order))

\* Mutant of WithoutAt: the element stays in the list.
WithoutAtKept(l, i) == l

\* l.pop(i) leaves l without its element i (0-based).
WithoutAt(l, i) == SubSeq(l, 1, i) \o SubSeq(l, i + 2, Len(l))

\* ensemble.py:137-145: one iteration of `while deck`: the first entry not
\* among the recent ones is placed, or the first entry when all are.
Place ==
    /\ bpc = "place"
    /\ deck # <<>>
    /\ LET recent == Recent(shuffled_order, batch_size)
           free == {i \in Indices(deck) :
                       \A p \in DOMAIN recent : recent[p] # deck[i + 1]}
           i == IF free = {} THEN 0
                ELSE CHOOSE x \in free : \A y \in free : x <= y
       IN  /\ shuffled_order' = Append(shuffled_order, deck[i + 1])
           /\ deck' = WithoutAt(deck, i)
    /\ UNCHANGED <<algo, corpus_size, batch_size, bpc, chunk_pos, seen_combos,
                   batches, voteVars, aggVars, retryVars, normVars, costVars, evalVars>>

\* [l[i:i + size] for i in range(0, len(l), size)]
RECURSIVE Chunked(_, _, _)
Chunked(l, pos, size) ==
    IF pos >= Len(l) THEN <<>>
    ELSE <<Chunk(l, pos, size)>> \o Chunked(l, pos + size, size)

\* ensemble.py:146.
SortReturn ==
    /\ bpc = "place"
    /\ deck = <<>>
    /\ batches' = Chunked(shuffled_order, 0, batch_size)
    /\ bpc' = "done"
    /\ UNCHANGED <<algo, corpus_size, batch_size, deck, chunk_pos, seen_combos,
                   shuffled_order, voteVars, aggVars, retryVars, normVars, costVars, evalVars>>

NextBatch ==
    \/ Shuffle
    \/ NextChunk
    \/ BatchesReturn
    \/ Place
    \/ SortReturn

SpecBatch == InitBatch /\ [][NextBatch]_vars

(***************************************************************************)
(* Claims on the batchers (SpecBatch)                                      *)
(***************************************************************************)

InBatch(idx, b) == \E p \in DOMAIN b : b[p] = idx

\* C9: for N > 0 and B >= 1 every candidate index 0..N-1 is in at least one
\* batch that create_batches emits (combinations already seen being skipped)
\* and in at least one batch that ContextSort.shuffle returns.
C9_EveryIndexBatched ==
    bpc = "done" =>
       \A idx \in 0..(corpus_size - 1) :
          \E b \in DOMAIN batches : InBatch(idx, batches[b])

\* create_batches returned after skipping a chunk whose combination it had
\* seen.
C9_Witness ==
    /\ bpc = "done"
    /\ algo = "create_batches"
    /\ corpus_size = 2
    /\ Len(batches) * batch_size < Len(deck)

\* C10: no batch emitted by create_batches holds an index twice.
C10_NoRepeatInBatch ==
    algo = "create_batches" =>
       \A b \in DOMAIN batches :
          \A p, q \in DOMAIN batches[b] :
             p # q => batches[b][p] # batches[b][q]

\* A batch was emitted from a chunk that held an index twice.
C10_Witness ==
    /\ algo = "create_batches"
    /\ bpc = "done"
    /\ batch_size = 2
    /\ \E k \in 0..(Redundancy * corpus_size - 1) :
          /\ k + 2 <= Len(deck)
          /\ k % 2 = 0
          /\ deck[k + 1] = deck[k + 2]
          /\ \E b \in DOMAIN batches : batches[b] = <<deck[k + 1]>>

\* C11: when 0 < N < B the batcher returns exactly one batch, and that batch
\* holds every candidate index exactly once, whatever the shuffle.
C11_SmallCorpusOneBatch ==
    (bpc = "done" /\ 0 < corpus_size /\ corpus_size < batch_size)
       => /\ Len(batches) = 1
          /\ \A idx \in 0..(corpus_size - 1) :
                Cardinality({p \in DOMAIN batches[1] : batches[1][p] = idx}) = 1

\* The loops of the batchers run on: `for chunk in chunked` and `while deck`
\* hold no blocking call, so a batcher that can take a step takes it.
FairBatch == SpecBatch /\ WF_vars(NextBatch)

\* C12: batch construction terminates for every N >= 0 and B >= 1; every
\* iteration of the placement loop moves exactly one entry from the deck to the
\* placed sequence (the first free entry, or the first entry when all are
\* blocked); and N = 0 returns zero batches.
C12_Terminates ==
    /\ <>(bpc = "done")
    /\ [][(bpc = "place" /\ deck # <<>>)
             => /\ Len(deck') = Len(deck) - 1
                /\ Len(shuffled_order') = Len(shuffled_order) + 1]_vars
    /\ [](bpc = "done" /\ corpus_size = 0 => batches = <<>>)

\* ContextSort.shuffle returned after a forced placement: a batch holds an
\* index twice.
C12_Witness ==
    /\ algo = "ContextSort"
    /\ bpc = "done"
    /\ \E b \in DOMAIN batches :
          \E p, q \in DOMAIN batches[b] : p # q /\ batches[b][p] = batches[b][q]

\* The indices placed in the window before position p of the placed sequence.
WindowBefore(p) ==
    {shuffled_order[q] : q \in {r \in DOMAIN shuffled_order :
                                  r < p /\ p - r <= batch_size}}

\* C23 as stated: any two occurrences of an index in the placed sequence have
\* at least batch_size other entries between them.
C23_NoRepeatInWindow ==
    algo = "ContextSort" =>
       \A p \in DOMAIN shuffled_order : shuffled_order[p] \notin WindowBefore(p)

\* C23, amended: an index is placed inside its own window only by force, that
\* is when every entry the deck still held was blocked by that window.
C23_RepeatOnlyWhenForced ==
    algo = "ContextSort" =>
       \A p \in DOMAIN shuffled_order :
          shuffled_order[p] \in WindowBefore(p) =>
             /\ \A r \in DOMAIN shuffled_order :
                   r > p => shuffled_order[r] \in WindowBefore(p)
             /\ \A d \in DOMAIN deck : deck[d] \in WindowBefore(p)

\* Two candidates, window 2: the sequence was placed to the end, with free
\* placements first and a forced one after them.
C23_Witness ==
    /\ algo = "ContextSort"
    /\ bpc = "done"
    /\ corpus_size = 2
    /\ batch_size = 2
    /\ shuffled_order[2] \notin WindowBefore(2)
    /\ \E p \in DOMAIN shuffled_order : shuffled_order[p] \in WindowBefore(p)

(***************************************************************************)
(* create_constrained_batches of full_1_pipe.py (lines 60-89): the same    *)
(* placement loop, then the final partial batch is handed out to the       *)
(* earlier batches                                                         *)
(***************************************************************************)

\* The largest article list and the largest BATCH_SIZE (8 in the source,
\* with the lookback 8 and the limit 9 = BATCH_SIZE + 1 of line 84).
MaxArticles == 3
MaxPipeBatch == 4

\* random.shuffle(deck), lines 63-64, up to the naming of the articles: the
\* arrangements in which the articles first turn up in index order.  Every
\* other arrangement is one of these with the articles renamed, and the
\* batcher only compares links with each other.
RECURSIVE ShufflesInOrder(_, _)
ShufflesInOrder(left, fresh) ==
    IF \A v \in DOMAIN left : left[v] = 0 THEN {<<>>}
    ELSE UNION {{<<v>> \o rest :
                    rest \in ShufflesInOrder([left EXCEPT ![v] = @ - 1],
                                             IF v = fresh THEN fresh + 1 ELSE fresh)}
                   : v \in {w \in DOMAIN left : left[w] > 0 /\ w <= fresh}}

PipeDeckTable ==
    [n \in 0..MaxArticles |-> ShufflesInOrder([v \in 0..(n - 1) |-> Redundancy], 0)]

InitPipe ==
    /\ algo = "full_1_pipe"
    /\ corpus_size \in 0..MaxArticles
    /\ batch_size \in 1..MaxPipeBatch
    /\ deck = <<>>
    /\ bpc = "start"
    /\ chunk_pos = 0
    /\ seen_combos = {}
    /\ shuffled_order = <<>>
    /\ batches = <<>>
    /\ VoteIdle
    /\ AggIdle
    /\ RetryIdle
    /\ NormIdle
    /\ CostIdle
    /\ EvalIdle

PipeShuffle ==
    /\ algo = "full_1_pipe"
    /\ bpc = "start"
    /\ deck' \in PipeDeckTable[corpus_size]
    /\ bpc' = "place"
    /\ UNCHANGED <<algo, corpus_size, batch_size, chunk_pos, seen_combos,
                   shuffled_order, batches, voteVars, aggVars, retryVars,
                   normVars, costVars, evalVars>>

\* Lines 82-86: each orphan goes to the last batch (`reversed(batches)`) that
\* has fewer than `limit` entries and does not hold its link; an orphan no
\* batch takes is left out.
RECURSIVE Redistribute(_, _, _)
Redistribute(bs, orphans, limit) ==
    IF orphans = <<>> THEN bs
    ELSE LET art == Head(orphans)
             open == {k \in DOMAIN bs :
                         /\ Len(bs[k]) < limit
                         /\ \A p \in DOMAIN bs[k] : bs[k][p] # art}
         IN  Redistribute(
                IF open = {} THEN bs
                ELSE [bs EXCEPT ![CHOOSE k \in open : \A j \in open : j <= k] =
                         Append(@, art)],
                Tail(orphans), limit)

\* Lines 78-89: chunk the placed sequence; a last batch shorter than
\* BATCH_SIZE is popped and its entries handed out; return.
PipeReturn ==
    /\ algo = "full_1_pipe"
    /\ bpc = "place"
    /\ deck = <<>>
    /\ LET chunks == Chunked(shuffled_order, 0, batch_size)
       IN  batches' = IF chunks # <<>> /\ Len(chunks[Len(chunks)]) < batch_size
                      THEN Redistribute(SubSeq(chunks, 1, Len(chunks) - 1),
                                        chunks[Len(chunks)], batch_size + 1)
                      ELSE chunks
    /\ bpc' = "done"
    /\ UNCHANGED <<algo, corpus_size, batch_size, deck, chunk_pos, seen_combos,
                   shuffled_order, voteVars, aggVars, retryVars, normVars,
                   costVars, evalVars>>

NextPipe ==
    \/ PipeShuffle
    \/ Place
    \/ PipeReturn

SpecPipe == InitPipe /\ [][NextPipe]_vars

(***************************************************************************)
(* Claims on create_constrained_batches of full_1_pipe.py (SpecPipe)       *)
(***************************************************************************)

\* C24: no batch a batcher returns holds more entries than the batch size,
\* the batches that took entries of the final partial batch included.
C24_BatchWithinSize ==
    \A b \in DOMAIN batches : Len(batches[b]) <= batch_size

\* C28: for a non-empty article list at least one batch is returned and
\* every article is in at least one returned batch.
C28_NoArticleLost ==
    (algo = "full_1_pipe" /\ bpc = "done" /\ corpus_size > 0)
       => /\ batches # <<>>
          /\ \A idx \in 0..(corpus_size - 1) :
                \E b \in DOMAIN batches : InBatch(idx, batches[b])

(***************************************************************************)
(* retry_policy (gideon_core.py:54-72)                                     *)
(***************************************************************************)

\* The largest configured number of attempts (the default is 5).
MaxRetries == 4

\* What one invocation of func comes to: it returns a value or raises an
\* Exception (what `except Exception` catches).
OpValues == {"v1", "v2"}
OpErrors == {"e1", "e2", "e3"}
Returns(v) == [kind |-> "ok", val |-> v]
Raises(e) == [kind |-> "exc", val |-> e]
OpOutcomes == {Returns(v) : v \in OpValues} \cup {Raises(e) : e \in OpErrors}

\* What a Python function returns when its body ends without a return.
ReturnsNone == [kind |-> "ok", val |-> "None"]

InitRetry ==
    /\ retries \in 0..MaxRetries
    /\ attempt = 0
    /\ rpc = "loop"
    /\ op_log = <<>>
    /\ wrapper_result = NoResult
    /\ VoteIdle
    /\ AggIdle
    /\ BatchIdle
    /\ NormIdle
    /\ CostIdle
    /\ EvalIdle

\* Mutant of RaisedException: the first attempt's exception is raised.
FirstException(log) == log[1]

\* `raise e`, line 70: e is the exception of the attempt just made.
RaisedException(log) == log[Len(log)]

\* Lines 59-70: one iteration of `for attempt in range(retries)`.
Attempt ==
    /\ rpc = "loop"
    /\ attempt < retries
    /\ \E out \in OpOutcomes :
          /\ op_log' = Append(op_log, out)
          /\ IF out.kind = "ok"
             THEN /\ rpc' = "returned"
                  /\ wrapper_result' = out
                  /\ attempt' = attempt
             ELSE IF attempt < retries - 1
                  THEN /\ attempt' = attempt + 1
                       /\ UNCHANGED <<rpc, wrapper_result>>
                  ELSE /\ rpc' = "raised"
                       /\ wrapper_result' = RaisedException(op_log')
                       /\ attempt' = attempt
    /\ UNCHANGED <<retries, voteVars, aggVars, batchVars, normVars, costVars, evalVars>>

\* The for loop ends without a return or a raise (range(retries) was empty):
\* wrapper's body ends and the call returns None.
LoopExhausted ==
    /\ rpc = "loop"
    /\ attempt >= retries
    /\ rpc' = "returned"
    /\ wrapper_result' = ReturnsNone
    /\ UNCHANGED <<retries, attempt, op_log, voteVars, aggVars, batchVars, normVars, costVars, evalVars>>

NextRetry ==
    \/ Attempt
    \/ LoopExhausted

SpecRetry == InitRetry /\ [][NextRetry]_vars

(***************************************************************************)
(* Claims on retry_policy (SpecRetry)                                      *)
(***************************************************************************)

\* C13: for every configured attempt count, wrapper either returns the result
\* of a successful invocation of the operation, unchanged, or raises; it
\* returns nothing the operation did not produce, and no invocation follows a
\* successful one.
C13_ResultOrRaise ==
    /\ rpc = "returned" =>
          /\ op_log # <<>>
          /\ op_log[Len(op_log)].kind = "ok"
          /\ wrapper_result = op_log[Len(op_log)]
    /\ \A i \in DOMAIN op_log : i < Len(op_log) => op_log[i].kind = "exc"

\* C14: when every attempt fails, the operation is invoked exactly `retries`
\* times, never more, and wrapper then raises the exception of the last
\* attempt.
C14_LastExceptionRaised ==
    /\ Len(op_log) <= retries
    /\ (rpc \in {"returned", "raised"} /\ op_log # <<>>
          /\ \A i \in DOMAIN op_log : op_log[i].kind = "exc")
         => /\ rpc = "raised"
            /\ Len(op_log) = retries
            /\ wrapper_result = op_log[Len(op_log)]
    /\ rpc = "raised" => Len(op_log) = retries

\* Three attempts failed with e1, e1, e2 and e2 was raised.
C14_Witness ==
    /\ rpc = "raised"
    /\ retries = 3
    /\ op_log = <<Raises("e1"), Raises("e1"), Raises("e2")>>
    /\ wrapper_result = Raises("e2")

(***************************************************************************)
(* Claims on the selection of FilteringPipeline.execute (SpecAgg)          *)
(***************************************************************************)

\* Entry i of final_scores ranks before entry j: a higher weighted score, or
\* the same score and encountered (inserted) earlier.
Outranks(i, j) ==
    \/ final_scores[i].score > final_scores[j].score
    \/ final_scores[i].score = final_scores[j].score /\ i < j

\* The first K entries of the score-descending ranking.
TopK ==
    {i \in DOMAIN final_scores :
        Cardinality({j \in DOMAIN final_scores : Outranks(j, i)}) < target_count}

\* The entry of final_scores a winner was selected for.
EntryOf(w) ==
    CHOOSE i \in DOMAIN final_scores :
       final_scores[i].key = normalize_url(repo_articles[w + 1])

HasArticle(i) ==
    \E a \in Indices(repo_articles) :
       normalize_url(repo_articles[a + 1]) = final_scores[i].key

ScoredArticles ==
    {a \in Indices(repo_articles) :
        \E n \in JudgeNames : \E l \in DOMAIN all_verdicts[n] :
           normalize_url(l) = normalize_url(repo_articles[a + 1])}

\* C27: when at least K articles of the repository were scored, execute
\* returns exactly K winners, each an article of the repository and none
\* twice, whatever other links the verdicts hold.
C27_ExactlyKWinners ==
    (apc = "done" /\ Cardinality(ScoredArticles) >= target_count)
       => /\ Len(winner_repo) = target_count
          /\ \A p \in DOMAIN winner_repo : winner_repo[p] \in Indices(repo_articles)
          /\ \A p, q \in DOMAIN winner_repo :
                p # q => winner_repo[p] # winner_repo[q]

(***************************************************************************)
(* normalize_url in FilteringPipeline.execute: the key a reported link is  *)
(* stored under (lines 359-360) and the lookup of its article (line 373)   *)
(***************************************************************************)

Scheme_http  == <<"h", "t", "t", "p", ":", "/", "/">>
Scheme_https == <<"h", "t", "t", "p", "s", ":", "/", "/">>
Scheme_HTTPS == <<"H", "T", "T", "P", "S", ":", "/", "/">>
Www_lower == <<"w", "w", "w", ".">>
Www_upper == <<"W", "W", "W", ".">>
Body_a  == <<"e", "x", "a", "m", "p", "l", "e", ".", "c", "o", "m", "/", "a">>
Body_Au == <<"E", "x", "a", "m", "p", "l", "e", ".", "C", "O", "M", "/", "a">>
Body_b  == <<"e", "x", "a", "m", "p", "l", "e", ".", "c", "o", "m", "/", "b">>

\* Spellings of links: with or without scheme, www. and trailing slash; the
\* last body is a host name whose first labels are wwww and ww.
Urls ==
    {s \o w \o b \o t :
        s \in {<<>>, Scheme_http, Scheme_https, Scheme_HTTPS},
        w \in {<<>>, Www_lower, Www_upper},
        b \in {Body_a, Body_Au, Body_b,
               <<"w", "w", "w", "w", ".", "w", "w", ".", "e", "x", ".", "c", "o", "/", "a">>},
        t \in {<<>>, <<"/">>}}
      \cup {<<>>}

InitNorm ==
    /\ cand_link \in Urls
    /\ judge_link \in Urls
    /\ norm_link = <<>>
    /\ npc = "start"
    /\ matched = FALSE
    /\ VoteIdle
    /\ AggIdle
    /\ BatchIdle
    /\ RetryIdle
    /\ CostIdle
    /\ EvalIdle

\* Lines 359-360: norm_link = normalize_url(link).
StoreKey ==
    /\ npc = "start"
    /\ norm_link' = normalize_url(judge_link)
    /\ npc' = "stored"
    /\ UNCHANGED <<cand_link, judge_link, matched, voteVars, aggVars,
                   batchVars, retryVars, costVars, evalVars>>

\* Line 373: if normalize_url(art.link) == norm_link.
Reassociate ==
    /\ npc = "stored"
    /\ matched' = (normalize_url(cand_link) = norm_link)
    /\ npc' = "done"
    /\ UNCHANGED <<cand_link, judge_link, norm_link, voteVars, aggVars,
                   batchVars, retryVars, costVars, evalVars>>

NextNorm ==
    \/ StoreKey
    \/ Reassociate

SpecNorm == InitNorm /\ [][NextNorm]_vars

(***************************************************************************)
(* Claims on normalize_url (SpecNorm)                                      *)
(***************************************************************************)

HasPrefix(u, pre) == Len(u) >= Len(pre) /\ SubSeq(u, 1, Len(pre)) = pre

DropPrefix(u, pre) ==
    IF HasPrefix(u, pre) THEN SubSeq(u, Len(pre) + 1, Len(u)) ELSE u

\* The URL without what the claim lets two spellings differ in: letter case,
\* an http:// or https:// scheme, a leading www. and a trailing slash.
Bare(u) ==
    LET l == LowerStr(u)
        noScheme == IF HasPrefix(l, Scheme_https) THEN DropPrefix(l, Scheme_https)
                    ELSE DropPrefix(l, Scheme_http)
        noWww == DropPrefix(noScheme, Www_lower)
    IN  IF noWww # <<>> /\ noWww[Len(noWww)] = "/"
        THEN SubSeq(noWww, 1, Len(noWww) - 1) ELSE noWww

SameUpToSpelling(u1, u2) == Bare(u1) = Bare(u2)

\* C18: two URLs that differ only in letter case, scheme, leading www. and
\* trailing slash have the same normalize_url key, and the lookup of a
\* winner's article compares normalized keys: it finds the article whose link
\* is another spelling of the reported link.
C18_SpellingsShareKey ==
    /\ SameUpToSpelling(cand_link, judge_link)
          => /\ normalize_url(cand_link) = normalize_url(judge_link)
             /\ npc = "done" => matched
    /\ npc \in {"stored", "done"} => norm_link = normalize_url(judge_link)
    /\ npc = "done" => (matched <=> normalize_url(cand_link) = norm_link)

\* The article example.com/a was found for HTTPS://WWW.Example.COM/a/.
C18_Witness ==
    /\ npc = "done"
    /\ cand_link = Body_a
    /\ judge_link = Scheme_HTTPS \o Www_upper \o Body_Au \o <<"/">>
    /\ matched

\* C30: normalize_url leaves a key it returned as it is.
C30_Idempotent ==
    npc \in {"stored", "done"} => normalize_url(norm_link) = norm_link

(***************************************************************************)
(* The cost ledgers: GenerativeAIClient.generate, HeuristicAgent's         *)
(* cost_incurred, IntelligencePipeline._track_cost (gideon_core.py) and    *)
(* Gemini.run (ensemble.py)                                                *)
(***************************************************************************)

\* Rates are in cents per 1e6 tokens and quantities in quarter tokens (one
\* character of _track_cost's `chars / 4`), so that every cost is an integer:
\* a cost of c here is c / 4e8 dollars.

\* PRICING of ensemble.py:16-45 (the entries of the models below).
EnsemblePricing ==
    [m \in {"gemini-3-pro-preview", "gemini-2.5-flash"} |->
        IF m = "gemini-3-pro-preview" THEN [input |-> 200, output |-> 1200]
        ELSE [input |-> 30, output |-> 250]]

\* Model identifiers: each registry lacks one of them.
Models == {"gemini-3-pro-preview", "gemini-2.5-flash", "claude-opus-4-6"}

\* response.usage_metadata: absent, or the two token counts.
NoUsage == [present |-> FALSE, prompt_token_count |-> 0, candidates_token_count |-> 0]
Usage(i, o) == [present |-> TRUE, prompt_token_count |-> i, candidates_token_count |-> o]
Usages == {NoUsage, Usage(1, 1), Usage(3, 0)}

\* len(prompt) and len(response) of _track_cost's callers.
InputChars == {0, 8}
OutputChars == {4}

\* The largest number of clients an agent builds.
MaxClients == 2

InitCost ==
    /\ session_cost = 0
    /\ client = 0
    /\ cost_incurred = 0
    /\ total_cost = 0
    /\ churn = 0
    /\ cpc = "idle"
    /\ cost_calls = 0
    /\ last_call = NoCall
    /\ delivered = "nothing"
    /\ VoteIdle
    /\ AggIdle
    /\ BatchIdle
    /\ RetryIdle
    /\ NormIdle
    /\ EvalIdle

\* gideon_core.py:292: evaluate_batch builds its own GenerativeAIClient, whose
\* session_cost starts at 0.0 (line 230).
NewClient ==
    /\ cpc = "idle"
    /\ client < MaxClients
    /\ client' = client + 1
    /\ session_cost' = 0
    /\ cpc' = "client"
    /\ UNCHANGED <<cost_incurred, total_cost, churn, cost_calls, last_call,
                   delivered, voteVars, aggVars, batchVars, retryVars, normVars, evalVars>>

\* gideon_core.py:240-253: an attempt of generate whose call returned a
\* response.
Generate ==
    /\ cpc = "client"
    /\ cost_calls < MaxCostCalls
    /\ \E model \in Models, usage \in Usages :
          /\ session_cost' =
                IF usage.present
                THEN Accumulate(session_cost,
                                Cost(4 * usage.prompt_token_count,
                                     4 * usage.candidates_token_count,
                                     RatesOrZero(model)))
                ELSE session_cost
          /\ last_call' = [path |-> "generate", model |-> model]
    /\ delivered' = "text"
    /\ cost_calls' = cost_calls + 1
    /\ UNCHANGED <<client, cost_incurred, total_cost, churn, cpc, voteVars,
                   aggVars, batchVars, retryVars, normVars, evalVars>>

\* gideon_core.py:316: self.cost_incurred += client.session_cost.
AgentFinish ==
    /\ cpc = "client"
    /\ cost_incurred' = Accumulate(cost_incurred, session_cost)
    /\ cpc' = "idle"
    /\ UNCHANGED <<session_cost, client, total_cost, churn, cost_calls,
                   last_call, delivered, voteVars, aggVars, batchVars,
                   retryVars, normVars, evalVars>>

\* gideon_core.py:397-401, called with the response in hand (lines 435, 477,
\* 499): the caller goes on with the response when _track_cost returns.
TrackCost ==
    /\ cost_calls < MaxCostCalls
    /\ \E model \in Models, input_chars \in InputChars, output_chars \in OutputChars :
          /\ total_cost' = Accumulate(total_cost,
                                      Cost(input_chars, output_chars, RatesOrZero(model)))
          /\ last_call' = [path |-> "_track_cost", model |-> model]
    /\ delivered' = "text"
    /\ cost_calls' = cost_calls + 1
    /\ UNCHANGED <<session_cost, client, cost_incurred, churn, cpc, voteVars,
                   aggVars, batchVars, retryVars, normVars, evalVars>>

\* ensemble.py:187-211, the call having returned a response: PRICING.get has
\* no default, so rates is None for a model the table lacks and rates["input"]
\* raises TypeError inside the try; the except clause returns None.
GeminiRun ==
    /\ cost_calls < MaxCostCalls
    /\ \E model \in Models, usage \in Usages :
          /\ last_call' = [path |-> "Gemini.run", model |-> model]
          /\ IF ~usage.present
             THEN /\ delivered' = "text"
                  /\ churn' = churn
             ELSE IF model \in DOMAIN EnsemblePricing
                  THEN /\ churn' = Accumulate(churn,
                                      Cost(4 * usage.prompt_token_count,
                                           4 * usage.candidates_token_count,
                                           EnsemblePricing[model]))
                       /\ delivered' = "text"
                  ELSE /\ churn' = churn
                       /\ delivered' = "None"
    /\ cost_calls' = cost_calls + 1
    /\ UNCHANGED <<session_cost, client, cost_incurred, total_cost, cpc,
                   voteVars, aggVars, batchVars, retryVars, normVars, evalVars>>

NextCost ==
    \/ NewClient
    \/ Generate
    \/ AgentFinish
    \/ TrackCost
    \/ GeminiRun

SpecCost == InitCost /\ [][NextCost]_vars

(***************************************************************************)
(* Claims on the cost ledgers (SpecCost)                                   *)
(***************************************************************************)

\* The model of the last call is absent from the registry its path reads.
UnknownModel ==
    IF last_call.path = "Gemini.run" THEN last_call.model \notin DOMAIN EnsemblePricing
    ELSE last_call.model \notin DOMAIN PRICING

\* C16: no cost-recording call lowers session_cost (of one client),
\* cost_incurred or total_cost; a call for a model the registry lacks leaves
\* them as they are; none is ever reset.
C16_LedgersNeverDecrease ==
    [][/\ cost_incurred' >= cost_incurred
       /\ total_cost' >= total_cost
       /\ client' = client => session_cost' >= session_cost
       /\ (cost_calls' = cost_calls + 1 /\ last_call'.model \notin DOMAIN PRICING)
             => /\ session_cost' = session_cost
                /\ cost_incurred' = cost_incurred
                /\ total_cost' = total_cost]_vars

\* A second client's cost was added to a cost_incurred that held the first
\* one's, and _track_cost was called for a model the registry lacks.
C16_Witness ==
    /\ client = 2
    /\ cpc = "idle"
    /\ cost_incurred > session_cost
    /\ session_cost > 0
    /\ last_call = [path |-> "_track_cost", model |-> "gemini-2.5-flash"]

\* C17: a cost-recording call for a model absent from the pricing registry
\* does not fail: the response of the inference call is still handed to the
\* caller.
C17_UnknownModelNeverFails ==
    (last_call.path # "none" /\ UnknownModel) => delivered = "text"

(***************************************************************************)
(* HeuristicAgent.evaluate_batch (gideon_core.py:289-318) and              *)
(* Stage1Judge.verdict (ensemble.py:225-289)                               *)
(***************************************************************************)

\* The largest number of batches handed to a judge.
MaxBatches == 2

\* `while attempts < 5`, ensemble.py:248.
VerdictAttempts == 5

\* The links the responses name.
EvalLinks == {U_a, U_b}

\* The elements of a parsed response: an object with or without a link, or
\* something that has no .get (a string, a number: item.get raises).
Scored(l, sc) == [kind |-> "obj", link |-> l, score |-> sc]
NoLinkItem == [kind |-> "obj", link |-> <<>>, score |-> 40]
BadElement == [kind |-> "bad", link |-> <<>>, score |-> 0]
Elements ==
    {Scored(l, sc) : l \in EvalLinks, sc \in Scores} \cup {NoLinkItem, BadElement}

\* What a submission comes to: the call raised (after generate's retries;
\* Gemini.run returned None), the text did not parse, or a list was parsed.
Response(k, its) == [kind |-> k, items |-> its]
Responses ==
    {Response("raised", <<>>), Response("unparsable", <<>>)}
      \cup {Response("parsed", its) :
               its \in {<<>>} \cup {<<e>> : e \in Elements}
                       \cup {<<e1, e2>> : e1 \in Elements, e2 \in Elements}}

NoEntry == [score |-> -1, batch |-> -1]

\* The elements `for item in data` gets to: those before the first one
\* without .get.
Reached(its) ==
    {p \in DOMAIN its : \A q \in 1..p : its[q].kind # "bad"}

\* The history of evaluate_batch's stores: for each link, the score of the
\* last element of batch b's response that the loop stored under it.
Record(log, its, b) ==
    [l \in DOMAIN log |->
        LET at == {p \in Reached(its) : its[p].link = l}
        IN  IF at = {} THEN log[l]
            ELSE [log[l] EXCEPT ![b] =
                     its[CHOOSE p \in at : \A q \in at : q <= p].score]]

\* The model and usage of the judges' calls: one fixed cost per response.
JudgeCallCost == Cost(4, 4, PRICING["gemini-3-pro-preview"])

InitEval ==
    /\ judge_algo \in {"evaluate_batch", "verdict"}
    /\ batch_count \in 0..MaxBatches
    /\ batch_i = 0
    /\ attempts = 0
    /\ results = [l \in EvalLinks |-> NoEntry]
    /\ submit_log = <<>>
    /\ batch_status = [b \in 0..(batch_count - 1) |-> "pending"]
    /\ scored_log = [l \in EvalLinks |-> [b \in 0..(batch_count - 1) |-> NoEntry.score]]
    /\ epc = "start"
    /\ VoteIdle
    /\ AggIdle
    /\ BatchIdle
    /\ RetryIdle
    /\ NormIdle
    /\ CostIdle

\* gideon_core.py:290-294, ensemble.py:231-239: the judge builds its client
\* and an empty result dict.
EvalBegin ==
    /\ epc = "start"
    /\ epc' = "loop"
    /\ client' = client + 1
    /\ session_cost' = 0
    /\ churn' = 0
    /\ UNCHANGED <<judge_algo, batch_count, batch_i, attempts, results,
                   submit_log, batch_status, scored_log, cost_incurred,
                   total_cost, cpc,
                   cost_calls, last_call, delivered, voteVars, aggVars,
                   batchVars, retryVars, normVars>>

\* Lines 304-312 (ensemble.py:264-273): `for item in data` stores the items in
\* order; an element without .get raises and ends the loop, what was stored
\* before it stays.
\* A store that keeps the entry a link already has.
RECURSIVE StoreItemsKeepFirst(_, _, _)
StoreItemsKeepFirst(res, its, b) ==
    IF its = <<>> THEN res
    ELSE IF Head(its).kind = "bad" THEN res
    ELSE StoreItemsKeepFirst(IF Head(its).link # <<>> /\ res[Head(its).link] = NoEntry
                             THEN [res EXCEPT ![Head(its).link] =
                                      [score |-> Head(its).score, batch |-> b]]
                             ELSE res,
                             Tail(its), b)

RECURSIVE StoreItems(_, _, _)
StoreItems(res, its, b) ==
    IF its = <<>> THEN res
    ELSE IF Head(its).kind = "bad" THEN res
    ELSE StoreItems(IF Head(its).link # <<>>
                    THEN [res EXCEPT ![Head(its).link] =
                             [score |-> Head(its).score, batch |-> b]]
                    ELSE res,
                    Tail(its), b)

\* Whether the try block ends in the except clause.
Fails(resp) ==
    \/ resp.kind \in {"raised", "unparsable"}
    \/ \E p \in DOMAIN resp.items : resp.items[p].kind = "bad"

\* A failure that ends the loop over the batches.
NextBatchIndexAbort(resp, i, n) == IF Fails(resp) THEN n ELSE i + 1

\* gideon_core.py:296, 313-314: the except clause is inside the for loop and
\* only prints, so the loop goes on to the next prompt whatever happened.
NextBatchIndex(resp, i, n) == i + 1

\* gideon_core.py:296-314: one iteration of `for i, prompt in
\* enumerate(batch_prompts)`; the except clause logs and the loop goes on.
SubmitBatch ==
    /\ judge_algo = "evaluate_batch"
    /\ epc = "loop"
    /\ batch_i < batch_count
    /\ \E resp \in Responses :
          /\ results' = StoreItems(results, resp.items, batch_i)
          /\ scored_log' = Record(scored_log, resp.items, batch_i)
          /\ batch_status' = [batch_status EXCEPT ![batch_i] =
                                 IF Fails(resp) THEN "failed" ELSE "ok"]
          /\ session_cost' = IF resp.kind = "raised" THEN session_cost
                             ELSE Accumulate(session_cost, JudgeCallCost)
          /\ batch_i' = NextBatchIndex(resp, batch_i, batch_count)
    /\ submit_log' = Append(submit_log, batch_i)
    /\ UNCHANGED <<judge_algo, batch_count, attempts, epc, client,
                   cost_incurred, total_cost, churn, cpc, cost_calls,
                   last_call, delivered, voteVars, aggVars, batchVars,
                   retryVars, normVars>>

\* gideon_core.py:316-318.
EvalReturn ==
    /\ judge_algo = "evaluate_batch"
    /\ epc = "loop"
    /\ batch_i >= batch_count
    /\ cost_incurred' = Accumulate(cost_incurred, session_cost)
    /\ epc' = "done"
    /\ UNCHANGED <<judge_algo, batch_count, batch_i, attempts, results,
                   submit_log, batch_status, scored_log, session_cost, client,
                   total_cost,
                   churn, cpc, cost_calls, last_call, delivered, voteVars,
                   aggVars, batchVars, retryVars, normVars>>

\* ensemble.py:248-281: one iteration of `while attempts < 5 and not
\* success`; after it the while ends (success, or attempts = 5) and the for
\* loop moves to the next batch with attempts = 0, or the same batch is
\* submitted again.
VerdictAttempt ==
    /\ judge_algo = "verdict"
    /\ epc = "loop"
    /\ batch_i < batch_count
    /\ \E resp \in Responses :
          /\ results' = StoreItems(results, resp.items, batch_i)
          /\ churn' = IF resp.kind = "raised" THEN churn
                      ELSE Accumulate(churn, JudgeCallCost)
          /\ IF ~Fails(resp)
             THEN /\ batch_status' = [batch_status EXCEPT ![batch_i] = "ok"]
                  /\ batch_i' = batch_i + 1
                  /\ attempts' = 0
             ELSE IF attempts + 1 < VerdictAttempts
                  THEN /\ attempts' = attempts + 1
                       /\ UNCHANGED <<batch_status, batch_i>>
                  ELSE /\ batch_status' = [batch_status EXCEPT ![batch_i] = "failed"]
                       /\ batch_i' = batch_i + 1
                       /\ attempts' = 0
    /\ submit_log' = Append(submit_log, batch_i)
    /\ UNCHANGED <<judge_algo, batch_count, epc, scored_log, session_cost, client,
                   cost_incurred, total_cost, cpc, cost_calls, last_call,
                   delivered, voteVars, aggVars, batchVars, retryVars, normVars>>

\* ensemble.py:286-289: self.bill += gemini_runner.churn (the judge's cost
\* total, cost_incurred here).
VerdictReturn ==
    /\ judge_algo = "verdict"
    /\ epc = "loop"
    /\ batch_i >= batch_count
    /\ cost_incurred' = Accumulate(cost_incurred, churn)
    /\ epc' = "done"
    /\ UNCHANGED <<judge_algo, batch_count, batch_i, attempts, results,
                   submit_log, batch_status, scored_log, session_cost, client,
                   total_cost,
                   churn, cpc, cost_calls, last_call, delivered, voteVars,
                   aggVars, batchVars, retryVars, normVars>>

NextEval ==
    \/ EvalBegin
    \/ SubmitBatch
    \/ EvalReturn
    \/ VerdictAttempt
    \/ VerdictReturn

SpecEval == InitEval /\ [][NextEval]_vars

(***************************************************************************)
(* Claims on the judges (SpecEval)                                         *)
(***************************************************************************)

\* How many times batch b was submitted.
Submissions(b) == Cardinality({p \in DOMAIN submit_log : submit_log[p] = b})

\* C19: a batch whose response does not parse, or whose call fails, is
\* submitted again, up to 3 attempts in all, and only then dropped.
C19_ThreeAttemptsPerBatch ==
    epc = "done" =>
       \A b \in DOMAIN batch_status :
          /\ Submissions(b) <= 3
          /\ batch_status[b] = "failed" => Submissions(b) = 3

\* C20: a batch whose processing failed has no entry in the returned verdict
\* that was written from its response.
C20_FailedBatchContributesNothing ==
    epc = "done" =>
       \A l \in DOMAIN results :
          results[l] # NoEntry => batch_status[results[l].batch] # "failed"

\* The batches from whose responses an entry was stored for link l.
ScoredIn(l) == {b \in DOMAIN scored_log[l] : scored_log[l][b] # NoEntry.score}

\* C21: the entry of a link in the verdict is the one stored from the last
\* batch, in the order of the batcher, whose response scored it: the later
\* store replaces the earlier one, nothing is averaged or kept.
C21_LastWriteWins ==
    judge_algo = "evaluate_batch" =>
       \A l \in DOMAIN results :
          IF ScoredIn(l) = {} THEN results[l] = NoEntry
          ELSE LET last == CHOOSE b \in ScoredIn(l) : \A c \in ScoredIn(l) : c <= b
               IN  results[l] = [score |-> scored_log[l][last], batch |-> last]

\* evaluate_batch returned after two batches scored the same link, 80 in
\* the first and 40 in the second.
C21_Witness ==
    /\ judge_algo = "evaluate_batch"
    /\ epc = "done"
    /\ batch_count = 2
    /\ scored_log[U_a][0] = 80
    /\ scored_log[U_a][1] = 40
    /\ results[U_a] = [score |-> 40, batch |-> 1]

\* C22: a failed batch (the call raised after its retries, or the response
\* did not parse) does not end evaluate_batch: the batches are submitted one
\* after the other in the batcher's order, all of them before the return,
\* and what the other batches scored is in the returned verdict.
C22_FailureIsolated ==
    judge_algo = "evaluate_batch" =>
       /\ submit_log = [p \in 1..batch_i |-> p - 1]
       /\ epc = "done" =>
             /\ batch_i = batch_count
             /\ \A b \in DOMAIN batch_status : batch_status[b] \in {"ok", "failed"}
             /\ \A l \in DOMAIN results :
                   (\E b \in DOMAIN batch_status :
                       batch_status[b] = "ok" /\ scored_log[l][b] # NoEntry.score)
                      => results[l] # NoEntry

\* evaluate_batch returned a verdict holding the second batch's score after
\* the first batch failed and left nothing.
C22_Witness ==
    /\ judge_algo = "evaluate_batch"
    /\ epc = "done"
    /\ batch_count = 2
    /\ batch_status[0] = "failed"
    /\ batch_status[1] = "ok"
    /\ submit_log = <<0, 1>>
    /\ results[U_a] = [score |-> 80, batch |-> 1]
    /\ results[U_b] = NoEntry

(***************************************************************************)
(* run_gemini_on_batches of full_1_pipe.py (lines 91-135)                  *)
(***************************************************************************)

InitRunGemini ==
    /\ judge_algo = "run_gemini_on_batches"
    /\ batch_count \in 0..MaxBatches
    /\ batch_i = 0
    /\ attempts = 0
    /\ results = <<>>
    /\ submit_log = <<>>
    /\ batch_status = [b \in 0..(batch_count - 1) |-> "pending"]
    /\ scored_log = <<>>
    /\ epc = "loop"
    /\ VoteIdle
    /\ AggIdle
    /\ BatchIdle
    /\ RetryIdle
    /\ NormIdle
    /\ CostIdle

\* Lines 97-133: one iteration of `while i < len(batches)`.  A parsed response
\* is appended whatever it holds and i moves on after time.sleep(2); an
\* exception whose text has "429" or "RESOURCE_EXHAUSTED" sleeps 60 s and
\* leaves i as it is; any other exception moves i on.
GeminiOnBatch ==
    /\ judge_algo = "run_gemini_on_batches"
    /\ epc = "loop"
    /\ batch_i < batch_count
    /\ \E resp \in Responses \cup {Response("rate_limited", <<>>)} :
          CASE resp.kind = "parsed" ->
                  /\ results' = Append(results, resp.items)
                  /\ batch_status' = [batch_status EXCEPT ![batch_i] = "ok"]
                  /\ batch_i' = batch_i + 1
                  /\ epc' = "sleeping"
            [] resp.kind = "rate_limited" ->
                  /\ epc' = "sleeping"
                  /\ UNCHANGED <<results, batch_status, batch_i>>
            [] OTHER ->
                  /\ batch_status' = [batch_status EXCEPT ![batch_i] = "failed"]
                  /\ batch_i' = batch_i + 1
                  /\ UNCHANGED <<results, epc>>
    /\ UNCHANGED <<judge_algo, batch_count, attempts, submit_log, scored_log,
                   voteVars, aggVars, batchVars, retryVars, normVars, costVars>>

\* time.sleep(2), time.sleep(60) return and the while loop tests again.
GeminiWake ==
    /\ judge_algo = "run_gemini_on_batches"
    /\ epc = "sleeping"
    /\ epc' = "loop"
    /\ UNCHANGED <<judge_algo, batch_count, batch_i, attempts, results,
                   submit_log, batch_status, scored_log, voteVars, aggVars,
                   batchVars, retryVars, normVars, costVars>>

\* Line 135: return results.
GeminiBatchesReturn ==
    /\ judge_algo = "run_gemini_on_batches"
    /\ epc = "loop"
    /\ batch_i >= batch_count
    /\ epc' = "done"
    /\ UNCHANGED <<judge_algo, batch_count, batch_i, attempts, results,
                   submit_log, batch_status, scored_log, voteVars, aggVars,
                   batchVars, retryVars, normVars, costVars>>

NextRunGemini ==
    \/ GeminiOnBatch
    \/ GeminiWake
    \/ GeminiBatchesReturn

SpecRunGemini == InitRunGemini /\ [][NextRunGemini]_vars

\* The loop is the only thread of the script; the call and the sleeps return,
\* so a step that can be taken is taken.
FairRunGemini == SpecRunGemini /\ WF_vars(NextRunGemini)

\* C26: the evaluation of a finite batch list ends, whatever the inference
\* service answers: every batch is given up after a bounded number of
\* attempts.
C26_EvaluationTerminates == <>(epc = "done")

====
